---- MODULE Spec2Model ----
(***************************************************************************)
(* Bank-statement extraction pipeline: pdf_extractor.py (table-row mapper, *)
(* text fallback parser, orchestrator, standardization), cleaning.py,      *)
(* validation.py, exporter.py and the processing block of app.py.          *)
(*                                                                         *)
(* Text is modelled as a sequence of characters (one-character strings),   *)
(* so that strip / replace / lower / split / the regular expressions are   *)
(* computed, not assumed.  Python's None is the value PyNone.              *)
(***************************************************************************)
EXTENDS Naturals, Integers, Sequences, FiniteSets, TLC

VARIABLES
    pc,               \* position of the run (see the actions)
    padYear,          \* platform: does strftime("%Y") zero-pad years < 1000
    pageIdx,          \* pages of the document processed so far
    rows,             \* extract_transactions_pdfplumber: rows (raw records)
    issues,           \* extraction issues
    df,               \* df_raw: the record set the extractor returned
    dfClean,          \* df_clean: the record set validate_dataframe returned
    validationIssues, \* issues of validate_dataframe
    summary,          \* summarize_issues(issues + validation_issues)
    exported,         \* tab_export offered the download button
    csv,              \* lines written by dataframe_to_csv_bytes
    lines,            \* _extract_from_text: lines (page under parse)
    pos,              \* _extract_from_text: lines consumed by the for loop
    current,          \* _extract_from_text: current (<<>> is None)
    prebuffer,        \* _extract_from_text: prebuffer
    trows,            \* _extract_from_text: rows
    tissues,          \* _extract_from_text: issues
    df2,              \* _clean_and_standardize called on its own result: the frame
    issues2,          \* ... and the issues of that second call
    rowIn,            \* _normalize_table_row: the row it is called with
    itemOut,          \* ... and what it returned (<<>> is None)
    pageTables,       \* the page loop: page.extract_tables() of the last page
    pageText          \* ... and the lines of its page.extract_text()

vars == <<pc, padYear, pageIdx, rows, issues, df, dfClean, validationIssues,
          summary, exported, csv, lines, pos, current, prebuffer, trows, tissues,
          df2, issues2, rowIn, itemOut, pageTables, pageText>>

-----------------------------------------------------------------------------
(* Python text primitives                                                  *)

PyNone == <<"None">>

Digit == {"0", "1", "2", "3", "4", "5", "6", "7", "8", "9"}

\* str.strip() / str.split() / regex \s on the characters the model uses
Whitespace == {" ", "\t", "\n"}

Upper == <<"A", "B", "C", "D", "E", "F", "G", "H", "I", "J", "K", "L", "M",
           "N", "O", "P", "Q", "R", "S", "T", "U", "V", "W", "X", "Y", "Z">>

Lower == <<"a", "b", "c", "d", "e", "f", "g", "h", "i", "j", "k", "l", "m",
           "n", "o", "p", "q", "r", "s", "t", "u", "v", "w", "x", "y", "z">>

LowerChar(c) ==
    IF \E i \in 1..26 : Upper[i] = c
    THEN Lower[CHOOSE i \in 1..26 : Upper[i] = c]
    ELSE c

\* str.lower()
StrLower(s) == [i \in 1..Len(s) |-> LowerChar(s[i])]

RECURSIVE LStrip(_)
LStrip(s) == IF s # <<>> /\ Head(s) \in Whitespace THEN LStrip(Tail(s)) ELSE s

RECURSIVE RStrip(_)
RStrip(s) ==
    IF s # <<>> /\ s[Len(s)] \in Whitespace
    THEN RStrip(SubSeq(s, 1, Len(s) - 1))
    ELSE s

\* str.strip()
Strip(s) == RStrip(LStrip(s))

\* sub in s
Contains(s, sub) ==
    \E i \in 1..(Len(s) + 1) :
        /\ i + Len(sub) - 1 <= Len(s)
        /\ SubSeq(s, i, i + Len(sub) - 1) = sub

\* s.startswith(p)
StartsWith(s, p) == Len(p) <= Len(s) /\ SubSeq(s, 1, Len(p)) = p

\* s.replace(c, r) for a one-character c
RECURSIVE Replace(_, _, _)
Replace(s, c, r) ==
    IF s = <<>> THEN <<>>
    ELSE (IF Head(s) = c THEN r ELSE <<Head(s)>>) \o Replace(Tail(s), c, r)

\* sep.join(parts)
RECURSIVE Join(_, _)
Join(parts, sep) ==
    IF parts = <<>> THEN <<>>
    ELSE IF Len(parts) = 1 THEN parts[1]
    ELSE parts[1] \o sep \o Join(Tail(parts), sep)

\* length of the leading run of non-whitespace characters
RECURSIVE WordLen(_)
WordLen(s) ==
    IF s = <<>> \/ Head(s) \in Whitespace THEN 0 ELSE 1 + WordLen(Tail(s))

\* str.split(): the whitespace-separated tokens
RECURSIVE Split(_)
SplitWord(t, n) == <<SubSeq(t, 1, n)>> \o Split(SubSeq(t, n + 1, Len(t)))
SplitStripped(t) == IF t = <<>> THEN <<>> ELSE SplitWord(t, WordLen(t))
Split(s) == SplitStripped(LStrip(s))

\* one or more ASCII digits: \d+ , str.isdigit()
IsDigits(s) == s # <<>> /\ \A i \in 1..Len(s) : s[i] \in Digit

DigitVal(c) == CHOOSE n \in 0..9 : <<"0", "1", "2", "3", "4", "5", "6", "7", "8", "9">>[n + 1] = c

RECURSIVE DigitsToNat(_)
DigitsToNat(s) ==
    IF s = <<>> THEN 0
    ELSE 10 * DigitsToNat(SubSeq(s, 1, Len(s) - 1)) + DigitVal(s[Len(s)])

\* int(s) succeeds: optional surrounding whitespace, optional sign, digits
IntParsesStripped(t) ==
    IsDigits(IF t # <<>> /\ Head(t) \in {"+", "-"} THEN Tail(t) ELSE t)

IntParses(s) == IntParsesStripped(Strip(s))

\* int(s), for s that IntParses
PyIntStripped(t) ==
    IF Head(t) = "-" THEN 0 - DigitsToNat(Tail(t))
    ELSE IF Head(t) = "+" THEN DigitsToNat(Tail(t))
    ELSE DigitsToNat(t)

PyInt(s) == PyIntStripped(Strip(s))

RECURSIVE NatToStr(_)
NatToStr(n) ==
    IF n < 10 THEN <<<<"0", "1", "2", "3", "4", "5", "6", "7", "8", "9">>[n + 1]>>
    ELSE NatToStr(n \div 10) \o NatToStr(n % 10)

\* str(n) for an int
IntToStr(n) == IF n < 0 THEN <<"-">> \o NatToStr(0 - n) ELSE NatToStr(n)

\* x or ""
OrEmpty(x) == IF x = PyNone THEN <<>> ELSE x

\* str(x): None prints as the text None
PyStr(x) == IF x = PyNone THEN <<"N", "o", "n", "e">> ELSE x

-----------------------------------------------------------------------------
(* cleaning.py                                                             *)

IsLeap(y) == (y % 4 = 0 /\ y % 100 # 0) \/ y % 400 = 0

DaysInMonth(y, m) ==
    IF m = 2 THEN (IF IsLeap(y) THEN 29 ELSE 28)
    ELSE IF m \in {4, 6, 9, 11} THEN 30 ELSE 31

\* datetime(y, m, d) does not raise ValueError
ValidDate(y, m, d) ==
    /\ y >= 1 /\ y <= 9999
    /\ m >= 1 /\ m <= 12
    /\ d >= 1 /\ d <= DaysInMonth(y, m)

\* \d{2}[-/]\d{2}[-/]\d{4} over the whole of t
IsDateToken(t) ==
    /\ Len(t) = 10
    /\ IsDigits(SubSeq(t, 1, 2))
    /\ t[3] \in {"-", "/"}
    /\ IsDigits(SubSeq(t, 4, 5))
    /\ t[6] \in {"-", "/"}
    /\ IsDigits(SubSeq(t, 7, 10))

\* DATE_IN = ^\s*(\d{2})[-/](\d{2})[-/](\d{4})\s*$
DateInMatches(s) == IsDateToken(Strip(s))

\* strftime("%Y"): four digits, except that the C library of some platforms
\* (glibc) prints a year below 1000 without leading zeros
ZeroPadded(d) == SubSeq(<<"0", "0", "0">>, 1, 4 - Len(d)) \o d

StrftimeYear(y, pad) == IF pad THEN ZeroPadded(NatToStr(y)) ELSE NatToStr(y)

\* lines 17-22, for the text t that DATE_IN matched, stripped
DateOfMatch(t, pad) ==
    IF ~ValidDate(DigitsToNat(SubSeq(t, 7, 10)), DigitsToNat(SubSeq(t, 4, 5)),
                  DigitsToNat(SubSeq(t, 1, 2)))
    THEN PyNone
    ELSE SubSeq(t, 1, 2) \o <<"/">> \o SubSeq(t, 4, 5) \o <<"/">>
         \o StrftimeYear(DigitsToNat(SubSeq(t, 7, 10)), pad)

NormalizeStripped(t, pad) == IF ~IsDateToken(t) THEN PyNone ELSE DateOfMatch(t, pad)

normalize_date(date_str, pad) ==
    IF date_str = PyNone THEN PyNone
    ELSE NormalizeStripped(Strip(PyStr(date_str)), pad)

ChequeStripped(s) ==
    IF s = <<"-">> \/ s = <<>> THEN <<>> ELSE Strip(Replace(s, "-", <<>>))

clean_cheque_number(chq) == IF chq = PyNone THEN <<>> ELSE ChequeStripped(Strip(chq))

AmountStripped(s, dash_to_empty) ==
    IF dash_to_empty /\ s = <<"-">> THEN <<>> ELSE Strip(Replace(s, ",", <<>>))

clean_amount(val, dash_to_empty) ==
    IF val = PyNone THEN <<>> ELSE AmountStripped(Strip(val), dash_to_empty)

clean_description(desc) == IF desc = PyNone THEN <<>> ELSE Strip(desc)

\* NUMERIC_OK = ^\d+(\.\d+)?$   (re.match; $ also matches before a final newline)
DigitsDotDigits(t) ==
    \/ IsDigits(t)
    \/ \E i \in 1..Len(t) :
          /\ t[i] = "."
          /\ IsDigits(SubSeq(t, 1, i - 1))
          /\ IsDigits(SubSeq(t, i + 1, Len(t)))

NumericOkMatches(s) ==
    DigitsDotDigits(IF s # <<>> /\ s[Len(s)] = "\n" THEN SubSeq(s, 1, Len(s) - 1) ELSE s)

validate_numeric(val) ==
    IF val = PyNone \/ val = <<>> THEN TRUE ELSE NumericOkMatches(PyStr(val))

-----------------------------------------------------------------------------
(* utils.py: ValidationIssue.  serial_no is <<>> (None) or <<n>>; message  *)
(* is the sequence of its text fragments; context is <<>> (None) or        *)
(* <<row>> for {"row": row}.                                               *)

ValidationIssue(serial_no, level, message, context) ==
    [serial_no |-> serial_no, level |-> level, message |-> message,
     context |-> context]

-----------------------------------------------------------------------------
(* pdf_extractor.py: table-row mapper                                      *)

Record(sr, txn, val, desc, chq, debit, credit, balance) ==
    [SerialNo |-> sr, TransactionDate |-> txn, ValueDate |-> val,
     Description |-> desc, ChequeNumber |-> chq, Debit |-> debit,
     Credit |-> credit, Balance |-> balance]

\* the record as a row of the DataFrame built from the dicts: the "_page"
\* column holds str(page_idx) for a table row, a missing value otherwise
WithPage(r, page) ==
    [SerialNo |-> r.SerialNo, TransactionDate |-> r.TransactionDate,
     ValueDate |-> r.ValueDate, Description |-> r.Description,
     ChequeNumber |-> r.ChequeNumber, Debit |-> r.Debit, Credit |-> r.Credit,
     Balance |-> r.Balance, Page |-> page]

s_opening_balance == <<"o", "p", "e", "n", "i", "n", "g", " ", "b", "a", "l", "a", "n", "c", "e">>
s_sr_no == <<"s", "r", ".", "n", "o">>
s_transaction == <<"t", "r", "a", "n", "s", "a", "c", "t", "i", "o", "n">>
s_value == <<"v", "a", "l", "u", "e">>
s_description == <<"d", "e", "s", "c", "r", "i", "p", "t", "i", "o", "n">>

HeaderWords(joined) ==
    \/ Contains(joined, s_sr_no)
    \/ Contains(joined, s_transaction)
    \/ Contains(joined, s_value)
    \/ Contains(joined, s_description)

_looks_like_header_row(row) ==
    HeaderWords(Join([i \in 1..Len(row) |-> StrLower(OrEmpty(row[i]))], <<" ">>))

\* the parts, the empty ones too
AllParts(parts) == parts

\* [p for p in parts if p]
NonEmptyParts(parts) == SelectSeq(parts, LAMBDA p : p # <<>>)

\* lines 62-74, for the description built from the middle cells
MappedRow(cells, n, desc) ==
    IF StrLower(clean_description(desc)) = s_opening_balance
    THEN <<>>
    ELSE <<Record(cells[1], cells[2], cells[3], desc,
                  IF n >= 8 THEN cells[n - 3] ELSE <<>>,
                  cells[n - 2], cells[n - 1], cells[n])>>

\* lines 34-60, for the cleaned cells: cells[3:-4] with 8 cells or more,
\* cells[3:-3] with 6 or 7
MapCells(cells, n) ==
    IF _looks_like_header_row(cells) THEN <<>>
    ELSE IF n < 6 THEN <<>>
    ELSE MappedRow(cells, n,
            Join(NonEmptyParts(IF n >= 8 THEN SubSeq(cells, 4, n - 4)
                               ELSE SubSeq(cells, 4, n - 3)), <<" ">>))

\* <<>> for None, <<record>> for the dict
_normalize_table_row(row) ==
    IF row = <<>> THEN <<>>
    ELSE MapCells([i \in 1..Len(row) |->
                      Strip(Replace(OrEmpty(row[i]), "\n", <<" ">>))], Len(row))

-----------------------------------------------------------------------------
(* pdf_extractor.py: text fallback parser                                  *)

s_account_statement_from == <<"a", "c", "c", "o", "u", "n", "t", " ", "s", "t", "a", "t", "e", "m", "e", "n", "t", " ", "f", "r", "o", "m">>
s_account_statement == <<"a", "c", "c", "o", "u", "n", "t", " ", "s", "t", "a", "t", "e", "m", "e", "n", "t">>
s_page == <<"p", "a", "g", "e">>
s_this_is_a_computer_generated == <<"t", "h", "i", "s", " ", "i", "s", " ", "a", " ", "c", "o", "m", "p", "u", "t", "e", "r", "-", "g", "e", "n", "e", "r", "a", "t", "e", "d">>
s_statement_is_generated == <<"s", "t", "a", "t", "e", "m", "e", "n", "t", " ", "i", "s", " ", "g", "e", "n", "e", "r", "a", "t", "e", "d">>
s_page_sp == <<"p", "a", "g", "e", " ">>
s_sp_of_sp == <<" ", "o", "f", " ">>
s_bob_world == <<"b", "o", "b", " ", "w", "o", "r", "l", "d">>
s_debit == <<"d", "e", "b", "i", "t">>
s_credit == <<"c", "r", "e", "d", "i", "t">>
s_balance == <<"b", "a", "l", "a", "n", "c", "e">>
\* the Devanagari words of the Hindi header lines, one code point per element
s_hi_khata == <<"U+0916", "U+093E", "U+0924", "U+093E">>
s_hi_se == <<"U+0938", "U+0947">>
s_hi_tak == <<"U+0924", "U+0915">>
s_hi_chek == <<"U+091A", "U+0947", "U+0915">>
s_hi_name == <<"U+0928", "U+093E", "U+092E", "U+0947">>
s_hi_jama == <<"U+091C", "U+092E", "U+093E">>
s_hi_lenden == <<"U+0932", "U+0947", "U+0928", "U+0926", "U+0947", "U+0928">>
s_hi_vivaran == <<"U+0935", "U+0935", "U+0930", "U+0923">>

\* \d{2}:\d{2}:\d{2}\s*(am|pm)$ on t, the text after the \s+ of r
ClockMatches(r, t) ==
    /\ Len(t) < Len(r)
    /\ Len(t) >= 8
    /\ IsDigits(SubSeq(t, 1, 2)) /\ t[3] = ":"
    /\ IsDigits(SubSeq(t, 4, 5)) /\ t[6] = ":"
    /\ IsDigits(SubSeq(t, 7, 8))
    /\ LStrip(SubSeq(t, 9, Len(t))) \in {<<"a", "m">>, <<"p", "m">>}

\* ^\d{2}/\d{2}/\d{4}\s+\d{2}:\d{2}:\d{2}\s*(am|pm)$
TimestampMatches(l) ==
    /\ Len(l) >= 10
    /\ IsDigits(SubSeq(l, 1, 2)) /\ l[3] = "/"
    /\ IsDigits(SubSeq(l, 4, 5)) /\ l[6] = "/"
    /\ IsDigits(SubSeq(l, 7, 10))
    /\ ClockMatches(SubSeq(l, 11, Len(l)), LStrip(SubSeq(l, 11, Len(l))))

\* lines 163-185, for l = line.lower().strip()
NoiseLowered(l) ==
        \/ l = <<>>
        \/ Contains(l, s_account_statement_from)
        \/ StartsWith(l, s_account_statement)
        \/ StartsWith(l, s_page)
        \/ StartsWith(l, s_this_is_a_computer_generated)
        \/ StartsWith(l, s_statement_is_generated)
        \/ (Contains(l, s_page_sp) /\ Contains(l, s_sp_of_sp))
        \/ Contains(l, s_bob_world)
        \/ TimestampMatches(l)
        \/ (Contains(l, s_hi_khata) /\ Contains(l, s_hi_se) /\ Contains(l, s_hi_tak))
        \/ Contains(l, s_sr_no)
        \/ (Contains(l, s_debit) /\ Contains(l, s_credit) /\ Contains(l, s_balance))
        \/ (Contains(l, s_hi_chek) /\ Contains(l, s_hi_name) /\ Contains(l, s_hi_jama))
        \/ (Contains(l, s_hi_lenden) /\ Contains(l, s_hi_vivaran))

is_noise(line) == NoiseLowered(Strip(StrLower(line)))

\* AMOUNT_TOKEN = ^[\d,]+(?:\.\d{2})?$|^-$
DigitsAndCommas(s) == s # <<>> /\ \A i \in 1..Len(s) : s[i] \in Digit \cup {","}

AmountTokenMatches(tok) ==
    \/ tok = <<"-">>
    \/ DigitsAndCommas(tok)
    \/ /\ Len(tok) >= 4
       /\ tok[Len(tok) - 2] = "."
       /\ IsDigits(SubSeq(tok, Len(tok) - 1, Len(tok)))
       /\ DigitsAndCommas(SubSeq(tok, 1, Len(tok) - 3))

\* SRNO_LINE = ^\s*(\d{1,4})\s+(DATE)\s+(?:(DATE)\s+)?(.*)$ with
\* DATE = \d{2}[-/]\d{2}[-/]\d{4}, on a stripped line: every group but the
\* last must be followed by whitespace, hence by a further token, so the match
\* is decided on the line's whitespace-separated tokens.
SrnoTokensMatch(tokens) ==
    /\ Len(tokens) >= 3
    /\ IsDigits(tokens[1]) /\ Len(tokens[1]) <= 4
    /\ IsDateToken(tokens[2])

SrnoLineMatches(ln) == SrnoTokensMatch(Split(ln))

\* m.groups(): sr, txn_date, val_date (PyNone when the optional group did not
\* take part), and rest, kept as rest.split()
GroupsOf(tokens, two) ==
    [sr       |-> tokens[1],
     txn_date |-> tokens[2],
     val_date |-> IF two THEN tokens[3] ELSE PyNone,
     tokens   |-> SubSeq(tokens, IF two THEN 4 ELSE 3, Len(tokens))]

GroupsOfTokens(tokens) == GroupsOf(tokens, Len(tokens) >= 4 /\ IsDateToken(tokens[3]))

SrnoLineGroups(ln) == GroupsOfTokens(Split(ln))

\* the while loop: the number of trailing amount tokens taken, at most 3
RECURSIVE TrailingAmounts(_, _)
TrailingAmounts(tokens, taken) ==
    IF Len(tokens) - taken >= 1 /\ taken < 3
       /\ AmountTokenMatches(tokens[Len(tokens) - taken])
    THEN TrailingAmounts(tokens, taken + 1)
    ELSE taken

WarnNoTriplet ==
    <<"Could not reliably detect trailing Debit/Credit/Balance tokens in fallback text parse.">>

\* locals that outlive a call: a description line is still buffered
ParserStale == [current |-> <<>>, prebuffer |-> <<<<"F", "E", "E">>>>, rows |-> <<>>, issues |-> <<>>]

\* the parser's locals: current is <<>> (None) or <<record>>
ParserInit == [current |-> <<>>, prebuffer |-> <<>>, rows |-> <<>>, issues |-> <<>>]

flush_current(st) ==
    [st EXCEPT
        !.rows = IF st.current # <<>>
                    /\ StrLower(clean_description(st.current[1].Description))
                         # s_opening_balance
                 THEN Append(st.rows, st.current[1])
                 ELSE st.rows,
        !.current = <<>>]

\* lines 232-251: the record opened, for the amount tokens, the cheque
\* number and the description tokens found
OpenRecord(st, g, amt_tokens, cheque, desc_tokens) ==
    [st EXCEPT
       !.prebuffer = <<>>,
       !.current =
          <<Record(g.sr, g.txn_date, OrEmpty(g.val_date),
                   Strip(Join(NonEmptyParts(
                       st.prebuffer \o (IF desc_tokens # <<>>
                                        THEN <<Join(desc_tokens, <<" ">>)>>
                                        ELSE <<>>)), <<" ">>)),
                   cheque,
                   IF Len(amt_tokens) = 3 THEN amt_tokens[1] ELSE <<>>,
                   IF Len(amt_tokens) = 3 THEN amt_tokens[2] ELSE <<>>,
                   IF Len(amt_tokens) = 3 THEN amt_tokens[3] ELSE <<>>)>>,
       !.issues = IF Len(amt_tokens) = 3 THEN st.issues
                  ELSE Append(st.issues,
                         ValidationIssue(<<PyInt(g.sr)>>, "warning",
                                         WarnNoTriplet, <<>>))]

\* lines 226-230: a trailing all-digit token of at most 12 characters is the
\* cheque number
SplitCheque(st, g, amt_tokens, desc_tokens) ==
    IF /\ desc_tokens # <<>>
       /\ IsDigits(desc_tokens[Len(desc_tokens)])
       /\ Len(desc_tokens[Len(desc_tokens)]) <= 12
    THEN OpenRecord(st, g, amt_tokens, desc_tokens[Len(desc_tokens)],
                    SubSeq(desc_tokens, 1, Len(desc_tokens) - 1))
    ELSE OpenRecord(st, g, amt_tokens, <<>>, desc_tokens)

\* lines 211-224: k trailing amount tokens, the rest is description
SplitAmounts(st, g, k) ==
    SplitCheque(st, g,
                SubSeq(g.tokens, Len(g.tokens) - k + 1, Len(g.tokens)),
                SubSeq(g.tokens, 1, Len(g.tokens) - k))

\* lines 202-251, after flush_current
RowStartFlushed(st, ln, g) ==
    IF Contains(StrLower(ln), s_opening_balance)
    THEN [st EXCEPT !.prebuffer = <<>>, !.current = <<>>]
    ELSE SplitAmounts(st, g, TrailingAmounts(g.tokens, 0))

\* the body of "if m:" for a row-start line
RowStart(st, ln) == RowStartFlushed(flush_current(st), ln, SrnoLineGroups(ln))

\* line 196: the lines the loop skips before any other processing
SkippedLine(ln) == is_noise(ln) \/ _looks_like_header_row(<<ln>>)

\* one iteration of "for ln in lines"
ParseLine(st, ln) ==
    IF SkippedLine(ln) THEN st
    ELSE IF SrnoLineMatches(ln) THEN RowStart(st, ln)
    ELSE IF is_noise(ln) THEN st
    ELSE IF st.current = <<>>
         THEN [st EXCEPT !.prebuffer = Append(st.prebuffer, ln)]
         ELSE [st EXCEPT !.current =
                 <<[st.current[1] EXCEPT !.Description =
                      Strip(st.current[1].Description \o <<" ">> \o ln)]>>]

\* line 157: the stripped non-blank lines of the text (text: its lines, as
\* str.splitlines() returns them)
TextLines(text) ==
    SelectSeq([i \in 1..Len(text) |-> Strip(text[i])], LAMBDA ln : ln # <<>>)

RECURSIVE ParseLines(_, _)
ParseLines(st, lns) ==
    IF lns = <<>> THEN st ELSE ParseLines(ParseLine(st, Head(lns)), Tail(lns))

\* [rows, issues] as returned
Returned(st) == [rows |-> st.rows, issues |-> st.issues]

_extract_from_text(text) ==
    Returned(flush_current(ParseLines(ParserInit, TextLines(text))))

-----------------------------------------------------------------------------
(* pdf_extractor.py: standardization (_clean_and_standardize)              *)

\* lines 282-289 on one row; line 280's astype(str) on the raw text cells
StdCleanRow(r, pad) ==
    [SerialNo        |-> Strip(PyStr(r.SerialNo)),
     TransactionDate |-> normalize_date(PyStr(r.TransactionDate), pad),
     ValueDate       |-> normalize_date(PyStr(r.ValueDate), pad),
     Description     |-> clean_description(PyStr(r.Description)),
     ChequeNumber    |-> clean_cheque_number(PyStr(r.ChequeNumber)),
     Debit           |-> clean_amount(PyStr(r.Debit), TRUE),
     Credit          |-> clean_amount(PyStr(r.Credit), TRUE),
     Balance         |-> clean_amount(PyStr(r.Balance), FALSE),
     Page            |-> r.Page]

StdClean(raw, pad) == [i \in 1..Len(raw) |-> StdCleanRow(raw[i], pad)]

\* line 291: the rows of bad
IsBadRow(c) == c.SerialNo = <<>> \/ c.TransactionDate = PyNone

WarnDropped ==
    <<"Dropping a row due to missing Serial No or invalid Transaction Date.">>

\* lines 292-299: one warning per row of bad, in row order
DropIssue(c) ==
    ValidationIssue(IF c.SerialNo # <<>> /\ IntParses(c.SerialNo)
                    THEN <<PyInt(c.SerialNo)>> ELSE <<>>,
                    "warning", WarnDropped, <<c>>)

RECURSIVE DropIssues(_)
DropIssues(cleaned) ==
    IF cleaned = <<>> THEN <<>>
    ELSE (IF IsBadRow(Head(cleaned)) THEN <<DropIssue(Head(cleaned))>> ELSE <<>>)
         \o DropIssues(Tail(cleaned))

\* line 300: df.drop(bad.index)
DropBad(cleaned) == SelectSeq(cleaned, LAMBDA c : ~IsBadRow(c))

\* line 302 raises: some surviving Serial No is not the text of an int
AsTypeIntRaises(kept) == \E i \in 1..Len(kept) : ~IntParses(kept[i].SerialNo)

\* line 302, and the projection on EXPECTED_COLS of line 306
WithIntSerial(c) ==
    Record(PyInt(c.SerialNo), c.TransactionDate, c.ValueDate, c.Description,
           c.ChequeNumber, c.Debit, c.Credit, c.Balance)

\* line 303
NotOpeningBalance(kept) ==
    SelectSeq(kept, LAMBDA c : StrLower(c.Description) # s_opening_balance)

\* the rows of recs at the positions S that may come first: a least Serial No
Least(recs, S) == {j \in S : \A k \in S : recs[j].SerialNo <= recs[k].SerialNo}

\* the frames sort_values("Serial No") may return for the rows of recs at the
\* positions S: ascending in Serial No.  The call leaves kind at its default,
\* "quicksort", which pandas documents as not stable: rows sharing a Serial No
\* may come out in any order.
RECURSIVE SortOrders(_, _)
SortOrders(recs, S) ==
    IF S = {} THEN {<<>>}
    ELSE UNION {{<<recs[j]>> \o t : t \in SortOrders(recs, S \ {j})} :
                   j \in Least(recs, S)}

\* keep="first": last is kept unless a row before it has its Serial No
KeepFirst(init, last) ==
    IF \E i \in 1..Len(init) : init[i].SerialNo = last.SerialNo
    THEN init ELSE Append(init, last)

\* drop_duplicates(subset=["Serial No"], keep="first") on sorted rows
RECURSIVE DropDuplicates(_)
DropDuplicates(sorted) ==
    IF sorted = <<>> THEN <<>>
    ELSE KeepFirst(DropDuplicates(SubSeq(sorted, 1, Len(sorted) - 1)),
                   sorted[Len(sorted)])

\* line 304 on the rows that passed line 303
SortDedup(live) == {DropDuplicates(s) : s \in SortOrders(live, 1..Len(live))}

\* lines 302-306 on the rows that survived the drop: every frame the function
\* may return
SortDedupOutcomes(kept) ==
    SortDedup(NotOpeningBalance([i \in 1..Len(kept) |-> WithIntSerial(kept[i])]))

-----------------------------------------------------------------------------
(* validation.py                                                           *)

ExpectedCols ==
    {"SerialNo", "TransactionDate", "ValueDate", "Description", "ChequeNumber",
     "Debit", "Credit", "Balance"}

\* lines 22-25: some expected column is missing from the frame
MissingColumns(d) == \E i \in 1..Len(d) : ~(ExpectedCols \subseteq DOMAIN d[i])

SeqMin(d) == CHOOSE m \in {d[i].SerialNo : i \in 1..Len(d)} :
                 \A i \in 1..Len(d) : m <= d[i].SerialNo

SeqMax(d) == CHOOSE m \in {d[i].SerialNo : i \in 1..Len(d)} :
                 \A i \in 1..Len(d) : m >= d[i].SerialNo

\* the comparison of line 33 without the row order: only the count of rows
\* against the width of the range
NotSequentialUnordered(d) == Len(d) # SeqMax(d) - SeqMin(d) + 1

\* line 33: ser.tolist() != list(range(min, max + 1))
NotSequential(d) ==
    \/ Len(d) # SeqMax(d) - SeqMin(d) + 1
    \/ \E i \in 1..Len(d) : d[i].SerialNo # SeqMin(d) + i - 1

WarnNotSequential ==
    <<"Serial numbers are not perfectly sequential. This may indicate missing/duplicate rows.">>
WarnDebitCredit ==
    <<"Expected exactly one of Debit/Credit to be filled for a transaction.">>
WarnComma ==
    <<"Description contains a comma. CSV output is configured to avoid quotes; comma was replaced with a space.">>
ErrMissingBalance == <<"Missing Balance value">>
ErrMissingTxnDate == <<"Missing Transaction Date">>
WarnMissingValueDate == <<"Missing Value Date">>
ErrSerialNotNumeric == <<"Serial No column is not numeric: ">>
ErrMissingColumns == <<"Missing required columns: ">>

\* lines 44-46 for one column
NumericIssue(sn, col, val) ==
    IF validate_numeric(val) THEN <<>>
    ELSE <<ValidationIssue(<<sn>>, "error",
                           <<"Invalid numeric format in ", col, ": ">> \o PyStr(val),
                           <<>>)>>

\* not x, for a text cell or None
Falsy(x) == x = PyNone \/ x = <<>>

\* the missing balance reported at the level of an advisory
MissingBalanceIssueWarning(sn) ==
    ValidationIssue(<<sn>>, "warning", ErrMissingBalance, <<>>)

\* line 49
MissingBalanceIssue(sn) == ValidationIssue(<<sn>>, "error", ErrMissingBalance, <<>>)

\* the debit/credit anomaly reported at the level of a defect
DebitCreditIssueError(sn) == ValidationIssue(<<sn>>, "error", WarnDebitCredit, <<>>)

\* line 54
DebitCreditIssue(sn) == ValidationIssue(<<sn>>, "warning", WarnDebitCredit, <<>>)

HasComma(desc) == Contains(OrEmpty(desc), <<",">>)

\* lines 42-64 for one row of the iteration: the issues it appends
RowIssues(row) ==
    LET sn == row.SerialNo
        d  == OrEmpty(row.Debit)
        c  == OrEmpty(row.Credit)
    IN  NumericIssue(sn, "Debit", row.Debit)
        \o NumericIssue(sn, "Credit", row.Credit)
        \o NumericIssue(sn, "Balance", row.Balance)
        \o (IF Falsy(row.Balance) THEN <<MissingBalanceIssue(sn)>> ELSE <<>>)
        \o (IF (d = <<>> /\ c = <<>>) \/ (d # <<>> /\ c # <<>>)
            THEN <<DebitCreditIssue(sn)>>
            ELSE <<>>)
        \o (IF HasComma(row.Description)
            THEN <<ValidationIssue(<<sn>>, "warning", WarnComma, <<>>)>>
            ELSE <<>>)
        \o (IF Falsy(row.TransactionDate)
            THEN <<ValidationIssue(<<sn>>, "error", ErrMissingTxnDate, <<>>)>>
            ELSE <<>>)
        \o (IF Falsy(row.ValueDate)
            THEN <<ValidationIssue(<<sn>>, "warning", WarnMissingValueDate, <<>>)>>
            ELSE <<>>)

\* line 59: df.loc[df["Serial No"] == sn, "Description"] = ... : the
\* assignment reaches every row of the frame whose Serial No is sn
StripCommas(d, row) ==
    IF HasComma(row.Description)
    THEN [i \in 1..Len(d) |->
            IF d[i].SerialNo = row.SerialNo
            THEN [d[i] EXCEPT !.Description =
                                 Replace(OrEmpty(row.Description), ",", <<" ">>)]
            ELSE d[i]]
    ELSE d

\* lines 41-64: df.iterrows() yields the rows as they were when the loop
\* began (snapshot); out is the frame under rewrite
RECURSIVE ValidateRows(_, _, _, _)
ValidateRows(snapshot, i, out, acc) ==
    IF i > Len(snapshot) THEN [df |-> out, issues |-> acc]
    ELSE ValidateRows(snapshot, i + 1, StripCommas(out, snapshot[i]),
                      acc \o RowIssues(snapshot[i]))

\* [df, issues] as returned
validate_dataframe(d) ==
    IF MissingColumns(d)
    THEN [df |-> d,
          issues |-> <<ValidationIssue(<<>>, "error", ErrMissingColumns, <<>>)>>]
    ELSE IF d = <<>>
    THEN \* int(ser.min()) of an empty column raises inside the try
         [df |-> d,
          issues |-> <<ValidationIssue(<<>>, "error", ErrSerialNotNumeric, <<>>)>>]
    ELSE ValidateRows(d, 1, d,
            IF NotSequential(d)
            THEN <<ValidationIssue(<<>>, "warning", WarnNotSequential,
                                   <<[min |-> SeqMin(d), max |-> SeqMax(d)]>>)>>
            ELSE <<>>)

CountLevel(iss, level) == Cardinality({i \in 1..Len(iss) : iss[i].level = level})

summarize_issues(iss) ==
    [total    |-> Len(iss),
     errors   |-> CountLevel(iss, "error"),
     warnings |-> CountLevel(iss, "warning")]

-----------------------------------------------------------------------------
(* exporter.py                                                             *)

\* csv.writer with QUOTE_NONE and escapechar "\": None is written as the
\* empty field, and the delimiter, the quote character, the escape character
\* and the line terminator are each preceded by the escape character
RECURSIVE CsvEscape(_)
CsvEscape(s) ==
    IF s = <<>> THEN <<>>
    ELSE (IF Head(s) \in {",", "\\", "\"", "\n"} THEN <<"\\", Head(s)>>
          ELSE <<Head(s)>>) \o CsvEscape(Tail(s))

CsvRow(r) ==
    Join(<<IntToStr(r.SerialNo), CsvEscape(OrEmpty(r.TransactionDate)),
           CsvEscape(OrEmpty(r.ValueDate)), CsvEscape(OrEmpty(r.Description)),
           CsvEscape(OrEmpty(r.ChequeNumber)), CsvEscape(OrEmpty(r.Debit)),
           CsvEscape(OrEmpty(r.Credit)), CsvEscape(OrEmpty(r.Balance))>>, <<",">>)

\* the data lines of the file, after the header line
dataframe_to_csv_bytes(d) == [i \in 1..Len(d) |-> CsvRow(d[i])]

-----------------------------------------------------------------------------
(* Inputs of the model: table cells, table rows, page texts, clean rows    *)

MaxPages == 2
MaxLines == 3
MaxRecs == 2
MaxSerial == 3

\* "1"
c_1 == <<"1">>
\* "2"
c_2 == <<"2">>
\* "3"
c_3 == <<"3">>
\* "A1"
c_A1 == <<"A", "1">>
\* "01-01-2024"
d_0101 == <<"0", "1", "-", "0", "1", "-", "2", "0", "2", "4">>
\* " 02/01/2024"
d_0201 == <<" ", "0", "2", "/", "0", "1", "/", "2", "0", "2", "4">>
\* "31-02-2024"
d_3102 == <<"3", "1", "-", "0", "2", "-", "2", "0", "2", "4">>
\* "01-01-0024"
d_old == <<"0", "1", "-", "0", "1", "-", "0", "0", "2", "4">>
\* "PAY"
t_PAY == <<"P", "A", "Y">>
\* "FEE, TAX"
t_FEE_TAX == <<"F", "E", "E", ",", " ", "T", "A", "X">>
\* "NEFT"
t_NEFT == <<"N", "E", "F", "T">>
\* "12-34"
t_chq == <<"1", "2", "-", "3", "4">>
\* "1,000.00"
a_1000 == <<"1", ",", "0", "0", "0", ".", "0", "0">>
\* "900.00"
a_900 == <<"9", "0", "0", ".", "0", "0">>
\* "5.00"
a_5 == <<"5", ".", "0", "0">>
\* "Sr.No"
h_SrNo == <<"S", "r", ".", "N", "o">>
\* "Date"
h_Date == <<"D", "a", "t", "e">>
\* "Particulars"
h_Particulars == <<"P", "a", "r", "t", "i", "c", "u", "l", "a", "r", "s">>
\* "Debit"
h_Debit == <<"D", "e", "b", "i", "t">>
\* "Credit"
h_Credit == <<"C", "r", "e", "d", "i", "t">>
\* "Balance"
h_Balance == <<"B", "a", "l", "a", "n", "c", "e">>

\* table rows as the layout engine returns them (a cell may be None)
RowClean     == <<c_1, d_0101, d_0101, t_PAY, <<"-">>, a_1000, <<"-">>, a_900>>
RowDup       == <<c_1, d_0201, PyNone, t_FEE_TAX, t_chq, PyNone, <<"-">>, a_900>>
RowNoBalance == <<c_3, d_0101, d_0101, t_NEFT, <<>>, a_5, <<>>>>
RowBadDate   == <<c_2, d_3102, d_0101, t_PAY, <<"-">>, a_5, <<"-">>, a_900>>
RowNoSerial  == <<PyNone, d_0101, d_0101, t_PAY, <<"-">>, a_5, <<"-">>, a_900>>
RowBadSerial == <<c_A1, d_0101, d_0101, t_PAY, <<"-">>, a_5, <<"-">>, a_900>>
RowOldYear   == <<c_2, d_old, d_old, t_NEFT, <<"-">>, <<"-">>, a_5, a_900>>
RowHeader    == <<h_SrNo, h_Date, h_Date, h_Particulars, h_Particulars, h_Debit, h_Credit, h_Balance>>

RowVocab == {RowClean, RowDup, RowNoBalance, RowBadDate, RowNoSerial,
             RowBadSerial, RowOldYear, RowHeader}

PairVocab == {RowClean, RowDup, RowBadDate}

\* what page.extract_tables() may return: no table, one table of one row,
\* one table of two rows
PageTables ==
    {<<>>} \cup {<<<<r>>>> : r \in RowVocab}
           \cup {<<<<r1, r2>>>> : r1 \in PairVocab, r2 \in PairVocab}

\* "ATM WITHDRAWAL"
l_ATM == <<"A", "T", "M", " ", "W", "I", "T", "H", "D", "R", "A", "W", "A", "L">>
\* " FEE"
l_FEE == <<" ", "F", "E", "E">>
\* "  "
l_blank == <<" ", " ">>
\* "Page 1 of 2"
l_page == <<"P", "a", "g", "e", " ", "1", " ", "o", "f", " ", "2">>
\* "2 02-01-2024 02-01-2024 500.00 - 400.00"
l_row3 == <<"2", " ", "0", "2", "-", "0", "1", "-", "2", "0", "2", "4", " ", "0", "2", "-", "0", "1", "-", "2", "0", "2", "4", " ", "5", "0", "0", ".", "0", "0", " ", "-", " ", "4", "0", "0", ".", "0", "0">>
\* "3 03-01-2024 UPI 7.00 9.00"
l_row2 == <<"3", " ", "0", "3", "-", "0", "1", "-", "2", "0", "2", "4", " ", "U", "P", "I", " ", "7", ".", "0", "0", " ", "9", ".", "0", "0">>
\* "4 04/01/2024 NEFT 123456"
l_row0 == <<"4", " ", "0", "4", "/", "0", "1", "/", "2", "0", "2", "4", " ", "N", "E", "F", "T", " ", "1", "2", "3", "4", "5", "6">>
\* "1 01-01-2024 Opening Balance 900.00"
l_ob == <<"1", " ", "0", "1", "-", "0", "1", "-", "2", "0", "2", "4", " ", "O", "p", "e", "n", "i", "n", "g", " ", "B", "a", "l", "a", "n", "c", "e", " ", "9", "0", "0", ".", "0", "0">>
\* "VALUE DATED"
l_val == <<"V", "A", "L", "U", "E", " ", "D", "A", "T", "E", "D">>

\* what page.extract_text() may return, as its lines
PageTexts == {<<>>, <<l_ATM>>, <<l_ATM, l_row3>>, <<l_row2, l_page>>}

TextLineVocab == {l_ATM, l_FEE, l_blank, l_page, l_row3, l_row2, l_row0, l_ob, l_val}

\* the texts given to the fallback parser alone
Texts == UNION {[1..n -> TextLineVocab] : n \in 0..MaxLines}

\* "01/01/2024"
v_date == <<"0", "1", "/", "0", "1", "/", "2", "0", "2", "4">>
\* "A,,B"
v_A_B == <<"A", ",", ",", "B">>
\* "7"
v_7 == <<"7">>

\* rows given to validate_dataframe alone: each a defect or none, under
\* every serial number of 1..MaxSerial, in any order and with repeats
CleanRowVocab(sn) ==
    {Record(sn, v_date, v_date, t_PAY, <<>>, a_5, <<>>, a_900),
     Record(sn, v_date, PyNone, t_FEE_TAX, <<>>, <<>>, <<>>, a_900),
     Record(sn, v_date, v_date, v_A_B, <<>>, a_5, v_7, a_900),
     Record(sn, v_date, v_date, t_PAY, <<>>, <<>>, a_5, <<>>),
     Record(sn, v_date, v_date, t_PAY, <<>>, a_5, <<>>, <<"-">>),
     Record(sn, PyNone, v_date, t_PAY, <<>>, <<>>, a_1000, a_900)}

CleanRows == UNION {CleanRowVocab(sn) : sn \in 1..MaxSerial}

ValidateInputs == UNION {[1..n -> CleanRows] : n \in 1..MaxRecs}

-----------------------------------------------------------------------------
(* The run: extract_transactions_pdfplumber page by page, then the         *)
(* processing block and the export tab of app.py                           *)

Idle ==
    /\ df = <<>> /\ dfClean = <<>> /\ validationIssues = <<>>
    /\ summary = <<>> /\ exported = FALSE /\ csv = <<>>
    /\ pageIdx = 0 /\ rows = <<>> /\ issues = <<>>
    /\ lines = <<>> /\ pos = 0 /\ current = <<>> /\ prebuffer = <<>>
    /\ trows = <<>> /\ tissues = <<>>
    /\ df2 = <<>> /\ issues2 = <<>>
    /\ rowIn = <<>> /\ itemOut = <<>>
    /\ pageTables = <<>> /\ pageText = <<>>

Init ==
    /\ pc = "pages"
    /\ padYear \in BOOLEAN
    /\ Idle

appVars == <<dfClean, validationIssues, summary, exported, csv>>
stdVars == <<df2, issues2>>
mapVars == <<rowIn, itemOut>>
pageVars == <<pageTables, pageText>>
textVars == <<lines, pos, current, prebuffer, trows, tissues>>

\* the fallback issues tagged with the page counted from 0
PageTaggedFromZero(iss, page_idx) ==
    [k \in 1..Len(iss) |->
        ValidationIssue(iss[k].serial_no, iss[k].level,
                        <<"(page ">> \o IntToStr(page_idx - 1) \o <<") ">> \o iss[k].message,
                        iss[k].context)]

\* lines 105-109, 124-128: the fallback issues, tagged with the page
PageTagged(iss, page_idx) ==
    [k \in 1..Len(iss) |->
        ValidationIssue(iss[k].serial_no, iss[k].level,
                        <<"(page ">> \o IntToStr(page_idx) \o <<") ">> \o iss[k].message,
                        iss[k].context)]

\* lines 114-117: the item of one table row, if the mapper returned one
PageItem(item, page_idx) ==
    IF item = <<>> THEN <<>> ELSE <<WithPage(item[1], IntToStr(page_idx))>>

\* lines 113-117 for one table
RECURSIVE TableRows(_, _)
TableRows(t, page_idx) ==
    IF t = <<>> THEN <<>>
    ELSE PageItem(_normalize_table_row(Head(t)), page_idx)
         \o TableRows(Tail(t), page_idx)

\* lines 112-117: the items of the page's tables, in table and row order
RECURSIVE TableItems(_, _)
TableItems(tables, page_idx) ==
    IF tables = <<>> THEN <<>>
    ELSE TableRows(Head(tables), page_idx) \o TableItems(Tail(tables), page_idx)

\* lines 100-103, 119-122: the fallback rows; the frame has no Page for them
FallbackRows(got) == [k \in 1..Len(got) |-> WithPage(got[k], PyNone)]

\* lines 86-128: one iteration of the loop over pdf.pages; page_text is
\* assigned only where the fallback reads it
ExtractPage ==
    /\ pc = "pages"
    /\ pageIdx < MaxPages
    /\ pageIdx' = pageIdx + 1
    /\ \E tables \in PageTables :
         /\ pageTables' = tables
         /\ \E items \in {TableItems(tables, pageIdx + 1)} :
             IF tables # <<>> /\ items # <<>>
             THEN /\ rows' = rows \o items
                  /\ issues' = issues
                  /\ pageText' = pageText
             ELSE \E text \in PageTexts :
                    \E got \in {_extract_from_text(text)} :
                        /\ pageText' = text
                        /\ rows' = rows \o FallbackRows(got.rows)
                        /\ issues' = issues \o PageTagged(got.issues, pageIdx + 1)
    /\ UNCHANGED <<pc, padYear, df>>
    /\ UNCHANGED appVars
    /\ UNCHANGED textVars
    /\ UNCHANGED stdVars
    /\ UNCHANGED mapVars

ErrOpenOrParse == <<"Failed to open or parse PDF: ">>
ErrNoRows == <<"No transaction rows were extracted from the PDF.">>

\* the empty extraction reported at the level of an advisory
NoRowsIssueWarning == ValidationIssue(<<>>, "warning", ErrNoRows, <<>>)

\* lines 137-138
NoRowsIssue == ValidationIssue(<<>>, "error", ErrNoRows, <<>>)

\* lines 130-134: the layout engine raised inside the try; the locals of the
\* page loop end with the return
ExtractFails ==
    /\ pc = "pages"
    /\ issues' = Append(issues, ValidationIssue(<<>>, "error", ErrOpenOrParse, <<>>))
    /\ df' = <<>>
    /\ pc' = "returned"
    /\ UNCHANGED <<padYear, pageIdx, rows>>
    /\ UNCHANGED appVars
    /\ UNCHANGED textVars
    /\ UNCHANGED stdVars
    /\ UNCHANGED mapVars
    /\ pageTables' = <<>> /\ pageText' = <<>>

\* lines 136-143, with _clean_and_standardize (266-306): the pages are over
FinishExtraction ==
    /\ pc = "pages"
    /\ IF rows = <<>>
       THEN /\ issues' = Append(issues, NoRowsIssue)
            /\ df' = <<>>
            /\ pc' = "returned"
       ELSE \E cleaned \in {StdClean(rows, padYear)} :
              \E kept \in {DropBad(cleaned)} :
                /\ issues' = issues \o DropIssues(cleaned)
                /\ IF AsTypeIntRaises(kept)
                   THEN /\ pc' = "raised"
                        /\ df' = df
                   ELSE /\ pc' = "returned"
                        /\ df' \in SortDedupOutcomes(kept)
    /\ UNCHANGED <<padYear, pageIdx, rows>>
    /\ UNCHANGED appVars
    /\ UNCHANGED textVars
    /\ UNCHANGED stdVars
    /\ UNCHANGED mapVars
    /\ pageTables' = <<>> /\ pageText' = <<>>

\* app.py 122-125: the extractor raised; st.stop()
AppExtractionFailed ==
    /\ pc = "raised"
    /\ pc' = "failed"
    /\ UNCHANGED <<padYear, pageIdx, rows, issues, df>>
    /\ UNCHANGED appVars
    /\ UNCHANGED textVars
    /\ UNCHANGED stdVars
    /\ UNCHANGED mapVars
    /\ UNCHANGED pageVars

\* app.py 127-133: df_raw.empty; st.stop()
AppNoTransactions ==
    /\ pc = "returned"
    /\ df = <<>>
    /\ pc' = "stopped"
    /\ UNCHANGED <<padYear, pageIdx, rows, issues, df>>
    /\ UNCHANGED appVars
    /\ UNCHANGED textVars
    /\ UNCHANGED stdVars
    /\ UNCHANGED mapVars
    /\ UNCHANGED pageVars

\* app.py 137
AppValidate ==
    /\ pc = "returned"
    /\ df # <<>>
    /\ \E v \in {validate_dataframe(df)} :
           /\ dfClean' = v.df
           /\ validationIssues' = v.issues
    /\ pc' = "validated"
    /\ UNCHANGED <<padYear, pageIdx, rows, issues, df, summary, exported, csv>>
    /\ UNCHANGED textVars
    /\ UNCHANGED stdVars
    /\ UNCHANGED mapVars
    /\ UNCHANGED pageVars

\* app.py 138-146
AppSummarize ==
    /\ pc = "validated"
    /\ summary' = summarize_issues(issues \o validationIssues)
    /\ pc' = "summarized"
    /\ UNCHANGED <<padYear, pageIdx, rows, issues, df, dfClean, validationIssues,
                   exported, csv>>
    /\ UNCHANGED textVars
    /\ UNCHANGED stdVars
    /\ UNCHANGED mapVars
    /\ UNCHANGED pageVars

\* app.py 224-234: the export tab
AppExport ==
    /\ pc = "summarized"
    /\ IF summary.errors > 0
       THEN /\ exported' = FALSE
            /\ csv' = csv
       ELSE /\ exported' = TRUE
            /\ csv' = dataframe_to_csv_bytes(dfClean)
    /\ pc' = "done"
    /\ UNCHANGED <<padYear, pageIdx, rows, issues, df, dfClean, validationIssues,
                   summary>>
    /\ UNCHANGED textVars
    /\ UNCHANGED stdVars
    /\ UNCHANGED mapVars
    /\ UNCHANGED pageVars

Next ==
    \/ ExtractPage
    \/ ExtractFails
    \/ FinishExtraction
    \/ AppExtractionFailed
    \/ AppNoTransactions
    \/ AppValidate
    \/ AppSummarize
    \/ AppExport

Spec == Init /\ [][Next]_vars

-----------------------------------------------------------------------------
(* validate_dataframe, summarize_issues and the export gate on their own   *)

InitValidate ==
    /\ pc = "returned"
    /\ padYear = TRUE
    /\ df \in ValidateInputs
    /\ dfClean = <<>> /\ validationIssues = <<>>
    /\ summary = <<>> /\ exported = FALSE /\ csv = <<>>
    /\ pageIdx = 0 /\ rows = <<>> /\ issues = <<>>
    /\ lines = <<>> /\ pos = 0 /\ current = <<>> /\ prebuffer = <<>>
    /\ trows = <<>> /\ tissues = <<>>
    /\ df2 = <<>> /\ issues2 = <<>>
    /\ rowIn = <<>> /\ itemOut = <<>>
    /\ pageTables = <<>> /\ pageText = <<>>

NextValidate == AppValidate \/ AppSummarize \/ AppExport

SpecValidate == InitValidate /\ [][NextValidate]_vars

-----------------------------------------------------------------------------
(* _extract_from_text on its own, one line of the loop at a time           *)

InitText ==
    /\ pc = "text"
    /\ padYear = TRUE
    /\ lines \in Texts
    /\ pos = 0 /\ current = <<>> /\ prebuffer = <<>>
    /\ trows = <<>> /\ tissues = <<>>
    /\ df2 = <<>> /\ issues2 = <<>>
    /\ rowIn = <<>> /\ itemOut = <<>>
    /\ pageTables = <<>> /\ pageText = <<>>
    /\ df = <<>> /\ dfClean = <<>> /\ validationIssues = <<>>
    /\ summary = <<>> /\ exported = FALSE /\ csv = <<>>
    /\ pageIdx = 0 /\ rows = <<>> /\ issues = <<>>

pipeVars == <<padYear, pageIdx, rows, issues, df, dfClean, validationIssues,
              summary, exported, csv>>

ParserState ==
    [current |-> current, prebuffer |-> prebuffer, rows |-> trows, issues |-> tissues]

\* lines 154-159
TextBegin ==
    /\ pc = "text"
    /\ lines' = TextLines(lines)
    /\ pc' = "loop"
    /\ UNCHANGED <<pos, current, prebuffer, trows, tissues>>
    /\ UNCHANGED pipeVars
    /\ UNCHANGED stdVars
    /\ UNCHANGED mapVars
    /\ UNCHANGED pageVars

\* lines 195-261: one iteration of the loop
TextLine ==
    /\ pc = "loop"
    /\ pos < Len(lines)
    /\ \E st \in {ParseLine(ParserState, lines[pos + 1])} :
           /\ current' = st.current
           /\ prebuffer' = st.prebuffer
           /\ trows' = st.rows
           /\ tissues' = st.issues
    /\ pos' = pos + 1
    /\ UNCHANGED <<pc, lines>>
    /\ UNCHANGED pipeVars
    /\ UNCHANGED stdVars
    /\ UNCHANGED mapVars
    /\ UNCHANGED pageVars

\* lines 263-264: the final flush and the return
TextReturn ==
    /\ pc = "loop"
    /\ pos = Len(lines)
    /\ \E st \in {flush_current(ParserState)} :
           /\ current' = st.current
           /\ trows' = st.rows
    /\ pc' = "parsed"
    /\ UNCHANGED <<lines, pos, prebuffer, tissues>>
    /\ UNCHANGED pipeVars
    /\ UNCHANGED stdVars
    /\ UNCHANGED mapVars
    /\ UNCHANGED pageVars

NextText == TextBegin \/ TextLine \/ TextReturn

SpecText == InitText /\ [][NextText]_vars

-----------------------------------------------------------------------------
(* _clean_and_standardize on its own, called on raw records and then on    *)
(* the frame it returned                                                   *)

\* ",-"
a_comma_dash == <<",", "-">>

RowCommaDash == <<c_3, d_0101, d_0101, t_NEFT, <<"-">>, a_comma_dash, a_5, a_900>>

\* raw record sequences as the mapper and the fallback parser produce them
StdInputs ==
    ({TableItems(<<t>>, 1) :
         t \in UNION {[1..n -> RowVocab \cup {RowCommaDash}] : n \in 1..MaxRecs}}
     \cup {FallbackRows(_extract_from_text(text).rows) : text \in PageTexts})
    \ {<<>>}

\* the returned frame as a second call receives it: line 280's astype(str)
\* turns the int Serial No into its decimal text; there is no _page column
AsRaw(d) ==
    [i \in 1..Len(d) |->
        WithPage([d[i] EXCEPT !.SerialNo = IntToStr(d[i].SerialNo)], PyNone)]

InitStd ==
    /\ pc = "std"
    /\ padYear \in BOOLEAN
    /\ rows \in StdInputs
    /\ df = <<>> /\ dfClean = <<>> /\ validationIssues = <<>>
    /\ summary = <<>> /\ exported = FALSE /\ csv = <<>>
    /\ pageIdx = 0 /\ issues = <<>>
    /\ lines = <<>> /\ pos = 0 /\ current = <<>> /\ prebuffer = <<>>
    /\ trows = <<>> /\ tissues = <<>>
    /\ df2 = <<>> /\ issues2 = <<>>
    /\ rowIn = <<>> /\ itemOut = <<>>
    /\ pageTables = <<>> /\ pageText = <<>>

\* lines 266-306 on the raw records
Standardize ==
    /\ pc = "std"
    /\ \E cleaned \in {StdClean(rows, padYear)} :
         \E kept \in {DropBad(cleaned)} :
            /\ issues' = issues \o DropIssues(cleaned)
            /\ IF AsTypeIntRaises(kept)
               THEN /\ pc' = "raised"
                    /\ df' = df
               ELSE /\ pc' = "once"
                    /\ df' \in SortDedupOutcomes(kept)
    /\ UNCHANGED <<padYear, pageIdx, rows>>
    /\ UNCHANGED appVars
    /\ UNCHANGED textVars
    /\ UNCHANGED stdVars
    /\ UNCHANGED mapVars
    /\ UNCHANGED pageVars

\* lines 266-306 on the frame the first call returned
Restandardize ==
    /\ pc = "once"
    /\ \E cleaned \in {StdClean(AsRaw(df), padYear)} :
         \E kept \in {DropBad(cleaned)} :
            /\ issues2' = issues2 \o DropIssues(cleaned)
            /\ IF AsTypeIntRaises(kept)
               THEN /\ pc' = "raised"
                    /\ df2' = df2
               ELSE /\ pc' = "twice"
                    /\ df2' \in SortDedupOutcomes(kept)
    /\ UNCHANGED <<padYear, pageIdx, rows, issues, df>>
    /\ UNCHANGED appVars
    /\ UNCHANGED textVars
    /\ UNCHANGED mapVars
    /\ UNCHANGED pageVars

NextStd == Standardize \/ Restandardize

SpecStd == InitStd /\ [][NextStd]_vars

-----------------------------------------------------------------------------
(* _normalize_table_row on its own, one row at a time                      *)

MaxMid == 2

\* "TO\nX "
t_TO_X == <<"T", "O", "\n", "X", " ">>
\* "Opening Balance"
t_OB == <<"O", "p", "e", "n", "i", "n", "g", " ", "B", "a", "l", "a", "n", "c", "e">>

\* a row of five cells
RowShort == <<c_1, d_0101, t_PAY, a_5, a_900>>

\* the cells between the value date and the cheque number
MidCells == {t_PAY, <<>>, t_TO_X, t_OB}

\* rows of 8 cells and more: a description split over 1..MaxMid cells
WideRows ==
    {<<sr, d_0101, d_0201>> \o mid \o <<chq, a_5, <<"-">>, a_900>> :
        sr \in {c_1, PyNone},
        mid \in UNION {[1..n -> MidCells] : n \in 1..MaxMid},
        chq \in {<<"-">>, t_chq}}

MapRows == RowVocab \cup {RowShort} \cup WideRows

InitMap ==
    /\ pc = "row"
    /\ padYear = TRUE
    /\ rowIn \in MapRows
    /\ itemOut = <<>>
    /\ pageTables = <<>> /\ pageText = <<>>
    /\ df = <<>> /\ dfClean = <<>> /\ validationIssues = <<>>
    /\ summary = <<>> /\ exported = FALSE /\ csv = <<>>
    /\ pageIdx = 0 /\ rows = <<>> /\ issues = <<>>
    /\ lines = <<>> /\ pos = 0 /\ current = <<>> /\ prebuffer = <<>>
    /\ trows = <<>> /\ tissues = <<>>
    /\ df2 = <<>> /\ issues2 = <<>>

\* lines 24-74: item = _normalize_table_row(r)
MapRow ==
    /\ pc = "row"
    /\ pc' = "mapped"
    /\ itemOut' = _normalize_table_row(rowIn)
    /\ UNCHANGED <<padYear, pageIdx, rows, issues, df, rowIn>>
    /\ UNCHANGED appVars
    /\ UNCHANGED textVars
    /\ UNCHANGED stdVars
    /\ UNCHANGED pageVars

NextMap == MapRow

SpecMap == InitMap /\ [][NextMap]_vars

-----------------------------------------------------------------------------
(* Properties                                                              *)

Past == {"validated", "summarized", "done"}

\* the extractor went through _clean_and_standardize and returned
Standardized ==
    /\ pc \notin {"pages", "raised", "failed"}
    /\ rows # <<>>
    /\ \A k \in 1..Len(issues) : issues[k].message # ErrOpenOrParse

\* C1: when the processing of a document the extractor returned from is over
\* (halted on an empty frame, or past the export tab), export was offered if
\* and only if the extraction and validation issues together hold no error.
C1_ExportIffNoErrors ==
    pc \in {"stopped", "done"} =>
        (exported <=> CountLevel(issues \o validationIssues, "error") = 0)

\* C2: once the page loop is over with an empty raw record sequence, the
\* extractor has returned an empty frame and exactly one error-level issue,
\* which carries no serial number, and the pipeline halts: validation never
\* runs, no summary is computed and no export is offered.
C2_EmptyRawIsFatal ==
    (pc # "pages" /\ rows = <<>>) =>
        /\ df = <<>>
        /\ CountLevel(issues, "error") = 1
        /\ \A k \in 1..Len(issues) :
              issues[k].level = "error" => issues[k].serial_no = <<>>
        /\ pc \in {"returned", "stopped"}
        /\ dfClean = <<>> /\ validationIssues = <<>> /\ summary = <<>>
        /\ ~exported /\ csv = <<>>

\* every page was read, none gave a record, the run halted on the one error
C2_Witness ==
    /\ pc = "stopped"
    /\ pageIdx = MaxPages
    /\ rows = <<>>
    /\ Len(issues) = 1 /\ issues[1].level = "error" /\ issues[1].message = ErrNoRows

NoOpeningBalance(text) ==
    \A i \in 1..Len(text) : ~Contains(StrLower(text[i]), s_opening_balance)

Occurrences(text, ln) == Cardinality({i \in 1..Len(text) : text[i] = ln})

RecordsWith(ln) == {k \in 1..Len(trows) : Contains(trows[k].Description, ln)}

\* C3: after the final flush on a page without 'opening balance' text, every
\* line that is neither skipped as noise nor a row-start line (and whose text
\* occurs once on the page) is in the description of exactly one emitted
\* record.
C3_NoLineLostOrDuplicated ==
    (pc = "parsed" /\ NoOpeningBalance(lines)) =>
        \A i \in 1..Len(lines) :
            (/\ ~SkippedLine(lines[i])
             /\ ~SrnoLineMatches(lines[i])
             /\ Occurrences(lines, lines[i]) = 1)
            => Cardinality(RecordsWith(lines[i])) = 1

\* C4: extraction and standardization never end by raising: whatever raw
\* records the pages gave, the extractor returns.
C4_NeverRaises == pc \notin {"raised", "failed"}

\* C5: after validate_dataframe, every record with an empty balance has an
\* error-level missing-balance issue carrying its serial number, is still in
\* the returned record set, and the summary counts an error, so that export
\* is not offered.
C5_MissingBalanceBlocks ==
    pc \in Past =>
        \A i \in 1..Len(df) :
            Falsy(df[i].Balance) =>
                /\ \E k \in 1..Len(validationIssues) :
                      /\ validationIssues[k].level = "error"
                      /\ validationIssues[k].serial_no = <<df[i].SerialNo>>
                      /\ validationIssues[k].message = ErrMissingBalance
                /\ Len(dfClean) = Len(df)
                /\ dfClean[i] = [df[i] EXCEPT !.Description = dfClean[i].Description]
                /\ (pc # "validated" => summary.errors > 0)
                /\ (pc = "done" => ~exported)

\* two records, the first without a balance, the second clean: one error in
\* all, and no export
C5_Witness ==
    /\ pc = "done"
    /\ Len(df) = 2
    /\ Falsy(df[1].Balance) /\ ~Falsy(df[2].Balance)
    /\ summary.errors = 1
    /\ ~exported

\* every amount is well-formed, every balance and transaction date present
SoftOnly(d) ==
    \A i \in 1..Len(d) :
        /\ validate_numeric(d[i].Debit)
        /\ validate_numeric(d[i].Credit)
        /\ validate_numeric(d[i].Balance)
        /\ ~Falsy(d[i].Balance)
        /\ ~Falsy(d[i].TransactionDate)

\* C6: for a record set whose only defects are soft anomalies, every issue
\* validate_dataframe emits is a warning, the summary counts no error and
\* export is offered.
C6_SoftAnomaliesOnlyWarn ==
    (pc \in Past /\ SoftOnly(df)) =>
        /\ \A k \in 1..Len(validationIssues) : validationIssues[k].level = "warning"
        /\ (pc # "validated" => summary.errors = 0)
        /\ (pc = "done" => exported)

\* all four soft anomalies at once, and the export offered
C6_Witness ==
    /\ pc = "done"
    /\ SoftOnly(df)
    /\ exported
    /\ \A m \in {WarnNotSequential, WarnDebitCredit, WarnComma, WarnMissingValueDate} :
          \E k \in 1..Len(validationIssues) : validationIssues[k].message = m

CommaWarnings(sn) ==
    {k \in 1..Len(validationIssues) :
        /\ validationIssues[k].message = WarnComma
        /\ validationIssues[k].serial_no = <<sn>>}

RowsWithComma(sn) ==
    {i \in 1..Len(df) : df[i].SerialNo = sn /\ HasComma(df[i].Description)}

\* C7: after validate_dataframe no returned description holds a comma, a
\* record whose description held one has it with every comma replaced by a
\* space, and the comma warnings carrying a serial number are as many as the
\* records of that serial number whose description held a comma.
C7_CommasStripped ==
    pc \in Past =>
        /\ Len(dfClean) = Len(df)
        /\ \A i \in 1..Len(dfClean) : ~HasComma(dfClean[i].Description)
        /\ \A i \in 1..Len(df) :
              HasComma(df[i].Description) =>
                  dfClean[i].Description = Replace(df[i].Description, ",", <<" ">>)
        /\ \A i \in 1..Len(df) :
              Cardinality(CommaWarnings(df[i].SerialNo))
                  = Cardinality(RowsWithComma(df[i].SerialNo))

\* the serial numbers, in row order, go up by one from row to row
GapFreeAscending(d) ==
    \A i \in 1..(Len(d) - 1) : d[i + 1].SerialNo = d[i].SerialNo + 1

DocWarnings ==
    {k \in 1..Len(validationIssues) :
        /\ validationIssues[k].serial_no = <<>>
        /\ validationIssues[k].level = "warning"}

\* a row with no defect of its own
CleanRow(r) ==
    /\ validate_numeric(r.Debit) /\ validate_numeric(r.Credit)
    /\ validate_numeric(r.Balance)
    /\ ~Falsy(r.Balance) /\ ~Falsy(r.TransactionDate) /\ ~Falsy(r.ValueDate)
    /\ (OrEmpty(r.Debit) = <<>>) # (OrEmpty(r.Credit) = <<>>)
    /\ ~HasComma(r.Description)

\* C8: validate_dataframe emits one warning without serial number, the
\* non-sequential one, when the serial numbers in row order are not the
\* gap-free ascending run, and none when they are; when every row is clean
\* of its own, that warning is the only issue there is.
C8_OneSequenceWarning ==
    pc \in Past =>
        /\ Cardinality(DocWarnings) = IF GapFreeAscending(df) THEN 0 ELSE 1
        /\ \A k \in DocWarnings : validationIssues[k].message = WarnNotSequential
        /\ (\A i \in 1..Len(df) : CleanRow(df[i]))
              => Len(validationIssues) = Cardinality(DocWarnings)

\* serial numbers 1, 3 on clean rows: one issue in all
C8_Witness ==
    /\ pc = "done"
    /\ Len(df) = 2
    /\ df[1].SerialNo = 1 /\ df[2].SerialNo = 3
    /\ CleanRow(df[1]) /\ CleanRow(df[2])
    /\ Len(validationIssues) = 1
    /\ validationIssues[1].message = WarnNotSequential

BadRows(cleaned) == {i \in 1..Len(cleaned) : IsBadRow(cleaned[i])}

\* DD/MM/YYYY
CanonicalDate(t) ==
    /\ t # PyNone
    /\ Len(t) = 10
    /\ IsDigits(SubSeq(t, 1, 2)) /\ t[3] = "/"
    /\ IsDigits(SubSeq(t, 4, 5)) /\ t[6] = "/"
    /\ IsDigits(SubSeq(t, 7, 10))

DropsExactly(cleaned) ==
    /\ Len(df) = Len(cleaned) - Cardinality(BadRows(cleaned))
    /\ Cardinality({k \in 1..Len(issues) : issues[k].message = WarnDropped})
          = Cardinality(BadRows(cleaned))
    /\ \A i \in BadRows(cleaned) :
          \E k \in 1..Len(issues) :
              /\ issues[k].level = "warning"
              /\ issues[k].message = WarnDropped
              /\ issues[k].context = <<cleaned[i]>>
    /\ \A j \in 1..Len(df) :
          /\ df[j].SerialNo \in Int
          /\ CanonicalDate(df[j].TransactionDate)

\* C9: when standardization has returned, the rows missing from the frame
\* are exactly the raw rows with an empty serial number or a transaction date
\* that normalize_date refused, each of them has its warning with the row as
\* context and there is no other such warning, and every returned row has an
\* integer serial number and a transaction date of the form DD/MM/YYYY.
C9_DropsExactlyMalformed == Standardized => DropsExactly(StdClean(rows, padYear))

\* the rows that reach the sort, in document order
SurvivorsOf(raw, pad) ==
    NotOpeningBalance([i \in 1..Len(DropBad(StdClean(raw, pad))) |->
                          WithIntSerial(DropBad(StdClean(raw, pad))[i])])

FirstWithSerial(sv, sn) ==
    sv[CHOOSE i \in 1..Len(sv) :
          sv[i].SerialNo = sn /\ \A j \in 1..(i - 1) : sv[j].SerialNo # sn]

FirstKept(sv) ==
    \A j \in 1..Len(df) : df[j] = FirstWithSerial(sv, df[j].SerialNo)

\* C10: the frame standardization returns is strictly ascending in serial
\* number, and each of its rows is, among the surviving raw rows of its
\* serial number, the first in document order.
C10_SortedFirstKept ==
    Standardized =>
        /\ \A j \in 1..(Len(df) - 1) : df[j].SerialNo < df[j + 1].SerialNo
        /\ FirstKept(SurvivorsOf(rows, padYear))

\* C11: standardization is idempotent: called on the frame it returned, it
\* returns the same rows in the same order with every field unchanged, and
\* drops no row (it adds no issue).
C11_StandardizeIdempotent == pc = "twice" => (df2 = df /\ issues2 = <<>>)

\* the lines before the last one
Front(text) == SubSeq(text, 1, Len(text) - 1)

\* the last line is a row-start line that ends in three amount tokens
ThreeAmounts(toks) ==
    /\ Len(toks) >= 5
    /\ \A k \in (Len(toks) - 2)..Len(toks) : AmountTokenMatches(toks[k])

\* one or more description lines, then a single row-start line with three
\* trailing amount tokens
DescriptionsThenRow(text) ==
    /\ Len(text) >= 2
    /\ \A i \in 1..(Len(text) - 1) :
          ~SkippedLine(text[i]) /\ ~SrnoLineMatches(text[i])
    /\ ~SkippedLine(text[Len(text)])
    /\ SrnoLineMatches(text[Len(text)])
    /\ ThreeAmounts(Split(text[Len(text)]))

\* an amount field for a token, a lone "-" giving the empty field
DashEmpty(tok) == IF tok = <<"-">> THEN <<>> ELSE tok

OneRecordFrom(pre, toks, amount(_)) ==
    /\ Len(trows) = 1
    /\ trows[1].SerialNo = toks[1]
    /\ trows[1].TransactionDate = toks[2]
    /\ trows[1].ValueDate = IF IsDateToken(toks[3]) THEN toks[3] ELSE <<>>
    /\ StartsWith(trows[1].Description, Join(pre, <<" ">>))
    /\ trows[1].Debit = amount(toks[Len(toks) - 2])
    /\ trows[1].Credit = amount(toks[Len(toks) - 1])
    /\ trows[1].Balance = amount(toks[Len(toks)])

\* C12: for a page of description lines followed by one row-start line with
\* three trailing amount tokens, the parser returns exactly one record, with
\* the serial number and dates of the row-start line, a description that
\* begins with the buffered lines in their order, and debit, credit and
\* balance from the three tokens in that order, a lone "-" giving the empty
\* field.
C12_BufferedLinesThenRow ==
    (pc = "parsed" /\ DescriptionsThenRow(lines)) =>
        OneRecordFrom(Front(lines), Split(lines[Len(lines)]), DashEmpty)

\* the cells of a table row as text: None is empty, a line break is a space,
\* the ends are trimmed
CellTexts(r) ==
    [i \in 1..Len(r) |-> Strip(Replace(OrEmpty(r[i]), "\n", <<" ">>))]

NonEmptyTexts(parts) == SelectSeq(parts, LAMBDA t : t # <<>>)

\* the non-empty cells from index 3 up to the cheque-number cell, joined with
\* single spaces
MiddleJoined(cells) ==
    Join(NonEmptyTexts(SubSeq(cells, 4, Len(cells) - 4)), <<" ">>)

\* the fields of the record, in column order
FieldTexts(rec) ==
    <<rec.SerialNo, rec.TransactionDate, rec.ValueDate, rec.Description,
      rec.ChequeNumber, rec.Debit, rec.Credit, rec.Balance>>

\* the positional assignment of a row of 8 cells or more; the last conjunct
\* says that every non-empty cell is in the record exactly once
AssignedByPosition(cells, n, rec) ==
    /\ rec.SerialNo = cells[1]
    /\ rec.TransactionDate = cells[2]
    /\ rec.ValueDate = cells[3]
    /\ rec.Description = MiddleJoined(cells)
    /\ rec.ChequeNumber = cells[n - 3]
    /\ rec.Debit = cells[n - 2]
    /\ rec.Credit = cells[n - 1]
    /\ rec.Balance = cells[n]
    /\ Join(NonEmptyTexts(FieldTexts(rec)), <<" ">>)
          = Join(NonEmptyTexts(cells), <<" ">>)

WideNonHeader ==
    /\ pc = "mapped"
    /\ Len(rowIn) >= 8
    /\ ~_looks_like_header_row(CellTexts(rowIn))

\* C13: every non-header row of 8 cells or more is mapped by position: serial
\* number, transaction date and value date from the first three cells, debit,
\* credit and balance from the last three, the cheque number from the
\* fourth-from-last, the description from the cells in between joined with
\* single spaces; no cell goes to two fields and no non-empty cell is left
\* out.
C13_EveryWideRowMapped ==
    WideNonHeader =>
        /\ itemOut # <<>>
        /\ AssignedByPosition(CellTexts(rowIn), Len(rowIn), itemOut[1])

\* C13, amended: the same for every such row whose description is not
\* "opening balance" (trimmed, in any case); a row with that description is
\* discarded, the mapper returns nothing for it.
C13_WideRowMappedUnlessOpeningBalance ==
    WideNonHeader =>
        IF StrLower(Strip(MiddleJoined(CellTexts(rowIn)))) = s_opening_balance
        THEN itemOut = <<>>
        ELSE /\ itemOut # <<>>
             /\ AssignedByPosition(CellTexts(rowIn), Len(rowIn), itemOut[1])

\* a row of 9 cells with an empty cell inside its description was mapped
C13_Witness ==
    /\ WideNonHeader
    /\ Len(rowIn) >= 9
    /\ itemOut # <<>>
    /\ \E i \in 4..(Len(rowIn) - 4) : rowIn[i] = <<>>

\* the row-start lines of a page text
RowStartLines(text) ==
    {i \in 1..Len(text) : ~SkippedLine(text[i]) /\ SrnoLineMatches(text[i])}

\* the amount tokens the backward scan finds at the end of a row-start line
FoundAmounts(ln) ==
    SubSeq(Split(ln),
           Len(Split(ln)) - TrailingAmounts(SrnoLineGroups(ln).tokens, 0) + 1,
           Len(Split(ln)))

\* the text has one row-start line, which ends in fewer than three amount
\* tokens
OneRowFewAmounts(text) ==
    /\ NoOpeningBalance(text)
    /\ Cardinality(RowStartLines(text)) = 1
    /\ \A i \in RowStartLines(text) : Len(FoundAmounts(text[i])) < 3

OneTripletWarning(ln) ==
    /\ Len(tissues) = 1
    /\ tissues[1].level = "warning"
    /\ tissues[1].serial_no = <<PyInt(Split(ln)[1])>>

\* C14: a row-start line that ends in fewer than three amount tokens still
\* gives a record, exactly one warning with the line's serial number is
\* added, and the amount tokens found are kept: the non-empty amount fields
\* of the record are exactly those tokens, in their order.
C14_FoundAmountsKept ==
    (pc = "parsed" /\ OneRowFewAmounts(lines)) =>
        \A i \in RowStartLines(lines) :
            /\ Len(trows) = 1
            /\ OneTripletWarning(lines[i])
            /\ NonEmptyTexts(<<trows[1].Debit, trows[1].Credit, trows[1].Balance>>)
                  = FoundAmounts(lines[i])

\* the rows and issues one step of the page loop adds
NewRows == SubSeq(rows', Len(rows) + 1, Len(rows'))
NewIssues == SubSeq(issues', Len(issues) + 1, Len(issues'))

\* the table rows of the page for which the mapper returns a record
UsableRows(tbls) ==
    {c \in {<<t, r>> : t \in 1..Len(tbls), r \in 1..MaxRecs} :
        /\ c[2] <= Len(tbls[c[1]])
        /\ _normalize_table_row(tbls[c[1]][c[2]]) # <<>>}

\* the issues are those of the parse of the page's text, each message
\* prefixed with the page's number
TaggedWithPage(iss, got, n) ==
    /\ Len(iss) = Len(got)
    /\ \A k \in 1..Len(iss) :
          /\ iss[k].serial_no = got[k].serial_no
          /\ iss[k].level = got[k].level
          /\ iss[k].message = <<"(page ">> \o IntToStr(n) \o <<") ">> \o got[k].message

\* the rows a page adds are the rows of the parse of its text, its issues
\* those of the parse, tagged
FallbackStep(n, new, newIssues, parsed) ==
    /\ new = [k \in 1..Len(parsed.rows) |-> WithPage(parsed.rows[k], PyNone)]
    /\ TaggedWithPage(newIssues, parsed.issues, n)

\* the rows a page adds are its usable table rows, and it adds no issue
TableStep(n, new, newIssues, usable) ==
    /\ Len(new) = Cardinality(usable)
    /\ \A k \in 1..Len(new) : new[k].Page = IntToStr(n)
    /\ newIssues = <<>>

\* the step that processes page n
PageStep(n, new, newIssues) ==
    /\ SubSeq(rows', 1, Len(rows)) = rows
    /\ SubSeq(issues', 1, Len(issues)) = issues
    /\ \E usable \in {UsableRows(pageTables')} :
         IF usable = {}
         THEN \E parsed \in {_extract_from_text(pageText')} :
                 FallbackStep(n, new, newIssues, parsed)
         ELSE TableStep(n, new, newIssues, usable)

\* C15: the pages are taken in ascending order, one per step; the text of a
\* page is parsed if and only if its tables gave no usable row; the rows a
\* page adds are either all table rows (tagged with the page) or all rows of
\* the text parse, never both; they are appended to the raw records, so the
\* raw records are the pages' rows in page order; every issue of a page's
\* text parse carries that page's number.
C15_PagesInOrderFallbackIffNoRows ==
    [][pageIdx' # pageIdx =>
          /\ pageIdx' = pageIdx + 1
          /\ \E new \in {NewRows} : \E newIssues \in {NewIssues} :
                PageStep(pageIdx', new, newIssues)]_vars

\* the second page had a table without a usable row, and the parse of its
\* text added a row and a tagged issue
C15_Witness ==
    /\ pc = "pages"
    /\ pageIdx = 2
    /\ pageTables # <<>>
    /\ UsableRows(pageTables) = {}
    /\ rows # <<>>
    /\ rows[Len(rows)].Page = PyNone
    /\ issues # <<>>
    /\ StartsWith(issues[Len(issues)].message, <<"(page ">> \o IntToStr(2) \o <<") ">>)

SeqRange(q) == {q[i] : i \in 1..Len(q)}

\* the whitespace-separated tokens of the lines of a text
TokensOf(lns) == UNION {SeqRange(Split(lns[j])) : j \in 1..Len(lns)}

\* the description lines of a text: neither skipped nor a row start
DescriptionLines(lns) ==
    {lns[i] : i \in {j \in 1..Len(lns) :
                        ~SkippedLine(lns[j]) /\ ~SrnoLineMatches(lns[j])}}

\* the records and issues a page's parse adds come from the page's own lines:
\* at most one record and one issue per row-start line, descriptions made of
\* the page's tokens only, and no description line of the text parsed before
\* (unless this page has the same line) inside a description
OwnLinesOnly(new, newIssues, own, earlier) ==
    /\ Len(new) <= Cardinality(RowStartLines(own))
    /\ Len(newIssues) <= Cardinality(RowStartLines(own))
    /\ \A k \in 1..Len(new) :
          /\ SeqRange(Split(new[k].Description)) \subseteq TokensOf(own)
          /\ \A d \in DescriptionLines(earlier) \ SeqRange(own) :
                ~Contains(new[k].Description, d)

\* C16: the parser's state is local to the page: each call starts with an
\* empty buffer and no open record, so the records a page's parse adds are
\* made of that page's lines only and hold no description line of the text
\* of an earlier page.
C16_ParserStatePageLocal ==
    [][(pageIdx' # pageIdx /\ UsableRows(pageTables') = {}) =>
          \E new \in {NewRows} : \E newIssues \in {NewIssues} :
             \E own \in {TextLines(pageText')} : \E earlier \in {TextLines(pageText)} :
                OwnLinesOnly(new, newIssues, own, earlier)]_vars

\* both pages were parsed from their text: the description line of page 1 is
\* in the record of page 1 and not in the record of page 2
C16_Witness ==
    /\ pc = "pages"
    /\ pageIdx = 2
    /\ Len(rows) = 2
    /\ rows[1].Page = PyNone /\ rows[2].Page = PyNone
    /\ rows[1].Description = l_ATM
    /\ ~Contains(rows[2].Description, l_ATM)
    /\ pageText = <<l_row2, l_page>>

\* the record with its description set aside
ButDescription(r) == [r EXCEPT !.Description = <<>>]

\* C17: validate_dataframe returns the same rows in the same order; every
\* field of every row is as given, except the description of a row whose own
\* description held a comma; a row without a comma in its description is
\* returned exactly as given.
C17_OnlyOwnCommasTouched ==
    pc \in Past =>
        /\ Len(dfClean) = Len(df)
        /\ \A i \in 1..Len(df) :
              /\ ButDescription(dfClean[i]) = ButDescription(df[i])
              /\ ~HasComma(df[i].Description) => dfClean[i] = df[i]

=============================================================================
